---- MODULE Spec2Model ----
(***************************************************************************)
(* exzip: extraction of ZIP archives into a staging directory that is      *)
(* renamed onto the target.  The model follows src/src/main.rs,            *)
(* src/src/zip_ext.rs, src/src/encoding.rs, src/src/interrupt.rs and       *)
(* src/src/tempfile_utils.rs.                                              *)
(*                                                                         *)
(* A path is the sequence of its components (std::path::Component), each a *)
(* string: ".." is ParentDir, "." is CurDir, "/" is RootDir, "C:" is a     *)
(* drive Prefix and every other string is a Normal component.  A raw entry *)
(* name is the sequence of its raw (undecoded) components; the three       *)
(* decoders map a raw component to its text and a malformed flag.          *)
(***************************************************************************)
EXTENDS Integers, Sequences, FiniteSets, TLC

(***************************************************************************)
(* Bounds of the model.                                                    *)
(***************************************************************************)
\* longest component sequence handed to sanitize_path on its own
MaxComponents == 4
\* most entries of an archive handed to get_inner_root / detect on their own
MaxListLen == 3
\* most entries of an archive that is extracted
MaxEntries == 3
\* size of the copy buffer of interruptable_copy, scaled down from 128 KiB
BufLen == 2
\* most archives of a run on several
MaxArchives == 3

(***************************************************************************)
(* Option and Result values.                                               *)
(***************************************************************************)
None == [some |-> FALSE, val |-> <<>>]
Some(v) == [some |-> TRUE, val |-> v]
Ok(v) == [ok |-> TRUE, val |-> v, err |-> "none"]
Err(e) == [ok |-> FALSE, val |-> <<>>, err |-> e]

(***************************************************************************)
(* Paths.                                                                  *)
(***************************************************************************)
ParentDir == ".."
CurDir == "."
RootDir == "/"
Prefix == "C:"
\* the Normal components that hold a NUL byte
NulNames == {"a<NUL>"}

IsNormal(component) == component \notin {ParentDir, CurDir, RootDir, Prefix}
ContainsNul(os_str) == os_str \in NulNames

\* PathBuf::pop: drop the last component; an empty path stays empty
Pop(path) == IF path = <<>> THEN <<>> ELSE SubSeq(path, 1, Len(path) - 1)

\* Path::starts_with, component-wise
StartsWith(path, base) ==
    /\ Len(base) <= Len(path)
    /\ SubSeq(path, 1, Len(base)) = base

\* nothing is stripped: the path as it is
StripNothing(path, base) == Some(path)

\* Path::strip_prefix: the rest of path after base, or an error
StripPrefix(path, base) ==
    IF StartsWith(path, base)
    THEN Some(SubSeq(path, Len(base) + 1, Len(path)))
    ELSE None

\* one turn of the loop of sanitize_path: the accumulator after `component`,
\* or None when the component rejects the name
SanitizeStepNoEscapeCheck(result, component) ==
    IF IsNormal(component)
    THEN IF ContainsNul(component) THEN None ELSE Some(Append(result, component))
    ELSE IF component = ParentDir
         THEN Some(Pop(result))
         ELSE Some(result)

SanitizeStep(result, component) ==
    IF IsNormal(component)
    THEN IF ContainsNul(component) THEN None ELSE Some(Append(result, component))
    ELSE IF component = ParentDir
         THEN IF result = <<>> THEN None ELSE Some(Pop(result))
         ELSE Some(result)

RECURSIVE SanitizeFrom(_, _, _)
SanitizeFrom(path, n, result) ==
    IF n > Len(path)
    THEN Some(result)
    ELSE LET step == SanitizeStep(result, path[n])
         IN  IF step.some THEN SanitizeFrom(path, n + 1, step.val) ELSE None

sanitize_path(path) == SanitizeFrom(path, 1, <<>>)

\* only the final segment is looked at
IgnoredByFileName(path) ==
    /\ path # <<>>
    /\ path[Len(path)] \in {"__MACOSX", "Thumbs.db", ".DS_Store"}

is_ignored_file(path) ==
    \/ \E n \in DOMAIN path : path[n] = "__MACOSX"
    \/ /\ path # <<>>
       /\ path[Len(path)] \in {"Thumbs.db", ".DS_Store"}

(***************************************************************************)
(* Decoding of raw names.  The raw components that are not ASCII stand for *)
(* these byte strings: "E38182" is valid UTF-8 and malformed Shift_JIS,    *)
(* "8365" is malformed UTF-8 and valid Shift_JIS, "C2A1" is valid under    *)
(* both and "FF" is malformed under both.  An ASCII component decodes to   *)
(* itself under every encoding.                                            *)
(***************************************************************************)
Cp437Decode(raw) ==
    CASE raw = "E38182" -> [text |-> "cp437:pi,u-uml,e-acute", malformed |-> FALSE]
      [] raw = "8365"   -> [text |-> "cp437:a-circ,e", malformed |-> FALSE]
      [] raw = "C2A1"   -> [text |-> "cp437:box,i-acute", malformed |-> FALSE]
      [] raw = "FF"     -> [text |-> "cp437:nbsp", malformed |-> FALSE]
      [] OTHER          -> [text |-> raw, malformed |-> FALSE]

Utf8Decode(raw) ==
    CASE raw = "E38182" -> [text |-> "U+3042", malformed |-> FALSE]
      [] raw = "8365"   -> [text |-> "U+FFFD,e", malformed |-> TRUE]
      [] raw = "C2A1"   -> [text |-> "U+00A1", malformed |-> FALSE]
      [] raw = "FF"     -> [text |-> "U+FFFD", malformed |-> TRUE]
      [] OTHER          -> [text |-> raw, malformed |-> FALSE]

ShiftJisDecode(raw) ==
    CASE raw = "E38182" -> [text |-> "U+7E3A,U+FFFD", malformed |-> TRUE]
      [] raw = "8365"   -> [text |-> "U+30C6", malformed |-> FALSE]
      [] raw = "C2A1"   -> [text |-> "U+FF82,U+FF61", malformed |-> FALSE]
      [] raw = "FF"     -> [text |-> "U+FFFD", malformed |-> TRUE]
      [] OTHER          -> [text |-> raw, malformed |-> FALSE]

\* encoding_rs::Encoding::decode on a whole raw name
Decode(encoding, name_raw) ==
    LET one(raw) == CASE encoding = "UTF_8"     -> Utf8Decode(raw)
                      [] encoding = "SHIFT_JIS" -> ShiftJisDecode(raw)
                      [] OTHER                  -> Cp437Decode(raw)
    IN  [text |-> [n \in DOMAIN name_raw |-> one(name_raw[n]).text],
         malformed |-> \E n \in DOMAIN name_raw : one(name_raw[n]).malformed]

\* ZipFile::name of the zip reader: UTF-8 when the entry's language encoding
\* flag is set, CP437 otherwise
Name(file) ==
    IF file.utf8bit THEN Decode("UTF_8", file.name_raw).text
    ELSE Decode("Cp437", file.name_raw).text

is_utf8(file) ==
    LET utf8 == Decode("UTF_8", file.name_raw)
    IN  ~utf8.malformed /\ Name(file) = utf8.text

decoded_name_lossy(file, encoding) ==
    IF is_utf8(file) THEN Name(file)
    ELSE IF encoding = "Cp437" THEN Name(file)
    ELSE Decode(encoding, file.name_raw).text

(***************************************************************************)
(* get_inner_root: the loop over the entries, from entry n on, with the    *)
(* candidate root found so far.                                            *)
(***************************************************************************)
\* lines 184-186: the path itself for a directory entry, its parent for a file
ContainingDir(file, path) == IF file.dir THEN path ELSE Pop(path)

UnderRootByFirstName(path, root) == path # <<>> => path[1] = root[1]

\* line 188: path.starts_with(root)
UnderRoot(path, root) == StartsWith(path, root)

RECURSIVE InnerRootFrom(_, _, _, _)
InnerRootFrom(archive, encoding, n, root) ==
    IF n > Len(archive)
    THEN Ok(IF root.some THEN root.val ELSE <<>>)
    ELSE LET file == archive[n]
             sanitized == sanitize_path(decoded_name_lossy(file, encoding))
         IN  IF ~sanitized.some THEN Err("Malformed zip file")
             ELSE IF is_ignored_file(sanitized.val)
             THEN InnerRootFrom(archive, encoding, n + 1, root)
             ELSE LET path == ContainingDir(file, sanitized.val)
                  IN  IF root.some
                      THEN IF ~UnderRoot(path, root.val)
                           THEN Ok(<<>>)
                           ELSE InnerRootFrom(archive, encoding, n + 1, root)
                      ELSE IF path # <<>>
                           THEN InnerRootFrom(archive, encoding, n + 1,
                                              Some(<<path[1]>>))
                           ELSE Ok(<<>>)

get_inner_root(archive, encoding) ==
    IF archive = <<>> THEN Ok(<<>>) ELSE InnerRootFrom(archive, encoding, 1, None)

(***************************************************************************)
(* detect_filename_encoding: the candidates in order, each scanned until   *)
(* the first malformed name of an entry that is not is_utf8.               *)
(***************************************************************************)
CandidatesSwapped == <<"SHIFT_JIS", "UTF_8">>

Candidates == <<"UTF_8", "SHIFT_JIS">>

RECURSIVE Mismatch(_, _, _)
Mismatch(archive, candidate_encoding, n) ==
    IF n > Len(archive) THEN FALSE
    ELSE IF is_utf8(archive[n]) THEN Mismatch(archive, candidate_encoding, n + 1)
    ELSE IF Decode(candidate_encoding, archive[n].name_raw).malformed THEN TRUE
    ELSE Mismatch(archive, candidate_encoding, n + 1)

RECURSIVE DetectFrom(_, _)
DetectFrom(archive, c) ==
    IF c > Len(Candidates) THEN "Cp437"
    ELSE IF ~Mismatch(archive, Candidates[c], 1) THEN Candidates[c]
    ELSE DetectFrom(archive, c + 1)

detect_filename_encoding(archive) == DetectFrom(archive, 1)

(***************************************************************************)
(* get_encoding: the alias table first, then the label registry of         *)
(* encoding_rs (the labels of the two encodings of this model).            *)
(***************************************************************************)
ToLowercase(name) ==
    CASE name = "CP932" -> "cp932"
      [] name = "CP437" -> "cp437"
      [] name = "UTF-8" -> "utf-8"
      [] OTHER -> name

NAME_TABLE == [n \in {"cp437", "cp932"} |-> IF n = "cp437" THEN "Cp437" ELSE "SHIFT_JIS"]

ForLabel(label) ==
    LET l == ToLowercase(label)
    IN  CASE l \in {"utf-8", "utf8", "unicode-1-1-utf-8"} -> Some("UTF_8")
          [] l \in {"shift_jis", "sjis", "shift-jis", "ms_kanji", "csshiftjis",
                    "ms932", "windows-31j", "x-sjis"} -> Some("SHIFT_JIS")
          [] OTHER -> None

get_encoding(name) ==
    IF ToLowercase(name) \in DOMAIN NAME_TABLE
    THEN Some(NAME_TABLE[ToLowercase(name)])
    ELSE ForLabel(name)

(***************************************************************************)
(* The filesystem.  An absolute location is a sequence of Normal           *)
(* components below the directory that holds the archives.  fs maps the    *)
(* locations that unzip and the temporary directory created to their       *)
(* nodes.                                                                  *)
(***************************************************************************)
DirNode == [kind |-> "dir", len |-> 0, data |-> <<>>, mtime |-> "unset"]
FileNode == [kind |-> "file", len |-> 0, data |-> <<>>, mtime |-> "unset"]

\* the temporary directory of the kth archive (tempdir_with_prefix_in)
StagingRoot(kk) == <<"exzip-" \o ToString(kk)>>

\* the same call on std::fs with the relative path: it lands below the
\* working directory
LocateAmbient(root, rel) == Some(SelectSeq(rel, IsNormal))

\* where cap_std::fs::Dir resolves a relative path to: below the directory
\* it was opened on, or nowhere (the call fails) when the path is absolute
\* or leaves that directory
RECURSIVE LocateFrom(_, _, _, _)
LocateFrom(root, rel, n, acc) ==
    IF n > Len(rel) THEN Some(root \o acc)
    ELSE IF rel[n] \in {RootDir, Prefix} THEN None
    ELSE IF rel[n] = CurDir THEN LocateFrom(root, rel, n + 1, acc)
    ELSE IF rel[n] = ParentDir
         THEN IF acc = <<>> THEN None
              ELSE LocateFrom(root, rel, n + 1, Pop(acc))
    ELSE LocateFrom(root, rel, n + 1, Append(acc, rel[n]))

Locate(root, rel) == LocateFrom(root, rel, 1, <<>>)

Prefixes(abs) == {SubSeq(abs, 1, n) : n \in 1..Len(abs)}

\* Dir::create_dir_all: every missing ancestor and the directory itself
CreateDirAll(f, root, rel) ==
    LET at == Locate(root, rel)
    IN  IF ~at.some THEN [ok |-> FALSE, fs |-> f]
        ELSE IF \E p \in Prefixes(at.val) : p \in DOMAIN f /\ f[p].kind = "file"
        THEN [ok |-> FALSE, fs |-> f]
        ELSE [ok |-> TRUE,
              fs |-> [p \in DOMAIN f \cup Prefixes(at.val) |->
                         IF p \in DOMAIN f THEN f[p] ELSE DirNode]]

\* Dir::create: create or truncate a file whose parent directory exists
CreateFile(f, root, rel) ==
    LET at == Locate(root, rel)
    IN  IF ~at.some THEN [ok |-> FALSE, fs |-> f]
        ELSE IF at.val = <<>> THEN [ok |-> FALSE, fs |-> f]
        ELSE IF at.val \in DOMAIN f /\ f[at.val].kind = "dir"
        THEN [ok |-> FALSE, fs |-> f]
        ELSE IF Len(at.val) > 1 /\ Pop(at.val) \notin DOMAIN f
        THEN [ok |-> FALSE, fs |-> f]
        ELSE [ok |-> TRUE,
              fs |-> [p \in DOMAIN f \cup {at.val} |->
                         IF p = at.val THEN FileNode ELSE f[p]]]

\* write instead of write_all: a short write is taken for the whole
WriteOnce(f, root, rel, bytes) ==
    LET at == Locate(root, rel)
        n == IF Len(bytes) > 1 THEN 1 ELSE Len(bytes)
    IN  [f EXCEPT ![at.val].len = @ + n,
                  ![at.val].data = @ \o SubSeq(bytes, 1, n)]

\* write_all on the created file: the bytes are appended to it
WriteAll(f, root, rel, bytes) ==
    LET at == Locate(root, rel)
    IN  [f EXCEPT ![at.val].len = @ + Len(bytes),
                  ![at.val].data = @ \o bytes]

\* DirExt::set_mtime on an existing node
SetMtime(f, root, rel, t) ==
    LET at == Locate(root, rel)
    IN  IF ~at.some \/ at.val \notin DOMAIN f THEN [ok |-> FALSE, fs |-> f]
        ELSE [ok |-> TRUE, fs |-> [f EXCEPT ![at.val].mtime = t]]

KeepTempDir(f, kk) == f

\* TempDir::drop: the temporary directory and all below it is removed
DropTempDir(f, kk) ==
    [p \in {q \in DOMAIN f : ~StartsWith(q, StagingRoot(kk))} |-> f[p]]

\* the tree below the temporary directory, by relative path
StagedTree(f, kk) ==
    LET root == StagingRoot(kk)
        rels == {SubSeq(q, Len(root) + 1, Len(q)) :
                    q \in {q \in DOMAIN f : StartsWith(q, root)}}
    IN  [r \in rels |-> f[root \o r]]

(***************************************************************************)
(* zip_ext.rs: the stored date and time as a local time.                   *)
(***************************************************************************)
last_modified_chrono(file) ==
    CASE file.last_modified = "2024-01-01 12:00:00" ->
             [kind |-> "Single", earliest |-> "2024-01-01T12:00", latest |-> "2024-01-01T12:00"]
      [] file.last_modified = "2023-10-29 02:30:00" ->
             [kind |-> "Ambiguous", earliest |-> "2023-10-29T02:30+02", latest |-> "2023-10-29T02:30+01"]
      [] OTHER -> [kind |-> "None", earliest |-> "", latest |-> ""]

\* LocalResult::latest
Latest(local_result) ==
    IF local_result.kind = "None" THEN None ELSE Some(local_result.latest)

\* LocalResult::earliest
Earliest(local_result) ==
    IF local_result.kind = "None" THEN None ELSE Some(local_result.earliest)

(***************************************************************************)
(* Entries and archives.                                                   *)
(***************************************************************************)
File(name_raw, utf8bit, dir, len, last_modified) ==
    [name_raw |-> name_raw, utf8bit |-> utf8bit, dir |-> dir, len |-> len,
     last_modified |-> last_modified]

\* the components that make the names handed to sanitize_path on its own
ComponentPool == {"a", "b", ParentDir, CurDir, RootDir, Prefix, "a<NUL>"}

\* the entries of the archives handed to get_inner_root on its own
RootEntryPool ==
    { File(<<"a", "x.txt">>, FALSE, FALSE, 0, ""),
      File(<<"a", "y">>, FALSE, TRUE, 0, ""),
      File(<<"b", "y.txt">>, FALSE, FALSE, 0, ""),
      File(<<"x.txt">>, FALSE, FALSE, 0, ""),
      File(<<"a">>, FALSE, TRUE, 0, ""),
      File(<<"a", "b", "z">>, FALSE, FALSE, 0, ""),
      File(<<"a", "..">>, FALSE, TRUE, 0, ""),
      File(<<"..", "x">>, FALSE, FALSE, 0, ""),
      File(<<"__MACOSX", "a">>, FALSE, FALSE, 0, ""),
      File(<<"8365", "x">>, FALSE, FALSE, 0, "") }

\* the entries of the archives handed to detect_filename_encoding on its own
RawEntryPool ==
    { File(<<"a">>, FALSE, FALSE, 0, ""),
      File(<<"E38182">>, FALSE, FALSE, 0, ""),
      File(<<"E38182">>, TRUE, FALSE, 0, ""),
      File(<<"8365">>, FALSE, FALSE, 0, ""),
      File(<<"C2A1">>, FALSE, FALSE, 0, ""),
      File(<<"FF">>, FALSE, FALSE, 0, "") }

\* the entries of the archives that are extracted
EntryPool ==
    { File(<<"a", "x.txt">>, FALSE, FALSE, 3, "2024-01-01 12:00:00"),
      File(<<"a", "y">>, FALSE, TRUE, 0, "1980-00-00 00:00:00"),
      File(<<"x.txt">>, FALSE, FALSE, 0, "2023-10-29 02:30:00"),
      File(<<"b", "y.txt">>, FALSE, FALSE, 2, "2024-01-01 12:00:00"),
      File(<<"..", "..", "etc", "passwd">>, FALSE, FALSE, 1, "2024-01-01 12:00:00"),
      File(<<"__MACOSX", "a">>, FALSE, FALSE, 1, "2024-01-01 12:00:00"),
      File(<<"a", ".DS_Store">>, FALSE, FALSE, 1, "2024-01-01 12:00:00"),
      File(<<"a", "8365">>, FALSE, FALSE, 1, "2024-01-01 12:00:00") }

SeqsUpTo(S, n) == UNION {[1..m -> S] : m \in 0..n}

\* the values of -O
OencPool == {"None", "CP932", "latin-x"}

VARIABLES
    zipfiles,        \* args.zipfiles: the archives, each the sequence of its entries
    oenc,            \* args.oenc
    pre,             \* the state of each target path before the run
    pc,              \* where the program is
    k,               \* main: the index of the archive at hand
    INTERRUPTED,     \* interrupt.rs: the flag
    target,          \* the state of each target path
    fs,              \* the nodes created so far outside the targets, by location
    encoding,        \* extract_into: encoding
    inner_root,      \* extract_into: inner_root
    i,               \* unzip: the index of the entry at hand
    path,            \* unzip: path
    buf,             \* interruptable_copy: buf[..pos], the filled part of buf
    pos,             \* interruptable_copy: pos
    eof,             \* interruptable_copy: eof
    unread,          \* interruptable_copy: what the reader still holds
    written_length,  \* interruptable_copy: written_length
    result,          \* what extract returned for the archive at hand
    exit_code,       \* the exit status of the process
    stdout,          \* the lines printed on the standard output
    arg,             \* the argument of a function called on its own
    ret              \* and what it returned

inputs == <<zipfiles, oenc, pre>>
copy == <<buf, pos, eof, unread, written_length>>
call == <<arg, ret>>
vars == <<zipfiles, oenc, pre, pc, k, INTERRUPTED, target, fs, encoding,
          inner_root, i, path, buf, pos, eof, unread, written_length, result,
          exit_code, stdout, arg, ret>>

\* the state before main runs; every specification starts from it
Idle ==
    /\ k = 0
    /\ INTERRUPTED = FALSE
    /\ fs = << >>
    /\ encoding = "none"
    /\ inner_root = <<>>
    /\ i = 0
    /\ path = <<>>
    /\ buf = <<>>
    /\ pos = 0
    /\ eof = FALSE
    /\ unread = 0
    /\ written_length = 0
    /\ result = "none"
    /\ exit_code = -1
    /\ stdout = <<>>

NoRun ==
    /\ zipfiles = <<>>
    /\ oenc = "None"
    /\ pre = <<>>
    /\ target = <<>>
    /\ Idle

(***************************************************************************)
(* The functions called on their own.                                      *)
(***************************************************************************)
Call(f_ret) ==
    /\ pc = "call"
    /\ ret' = f_ret
    /\ pc' = "returned"
    /\ UNCHANGED <<zipfiles, oenc, pre, k, INTERRUPTED, target, fs,
                   encoding, inner_root, i, path, copy, result, exit_code,
                   stdout, arg>>

InitCall(S) == pc = "call" /\ arg \in S /\ ret = "none" /\ NoRun

InitSanitize == InitCall(SeqsUpTo(ComponentPool, MaxComponents))
CallSanitize == Call(sanitize_path(arg))
SpecSanitize == InitSanitize /\ [][CallSanitize]_vars

InitRoot == InitCall(SeqsUpTo(RootEntryPool, MaxListLen) \X {"UTF_8", "SHIFT_JIS"})
CallRoot == Call(get_inner_root(arg[1], arg[2]))
SpecRoot == InitRoot /\ [][CallRoot]_vars

InitDetect == InitCall(SeqsUpTo(RawEntryPool, MaxListLen))
CallDetect == Call(detect_filename_encoding(arg))
SpecDetect == InitDetect /\ [][CallDetect]_vars

(***************************************************************************)
(* The run of the program: main, extract, extract_into, unzip and          *)
(* interruptable_copy, one action per step.  A target path holds a tree:   *)
(* its nodes by relative path, none when the path does not exist.          *)
(***************************************************************************)
Absent == << >>
OldDir == [kind |-> "dir", len |-> 0, data |-> <<>>, mtime |-> "old"]
OldTree == (<<>> :> OldDir) @@ (<<"old.txt">> :> [kind |-> "file", len |-> 1, data |-> <<0>>, mtime |-> "old"])
\* what is left of the old tree when its removal stops half-way
PartlyRemoved == (<<>> :> OldDir)

Exists(tree) == <<>> \in DOMAIN tree

Min(a, b) == IF a < b THEN a ELSE b

Init ==
    /\ zipfiles \in {<<archive>> : archive \in SeqsUpTo(EntryPool, MaxEntries)}
    /\ oenc \in OencPool
    /\ pre \in [DOMAIN zipfiles -> {Absent, OldTree}]
    /\ target = pre
    /\ pc = "start"
    /\ Idle
    /\ arg = <<>>
    /\ ret = "none"

\* a line of the standard output: its fixed text and the path it shows
Line(text, shown) == [text |-> text, shown |-> shown]

\* how the lines show the archive and the target of the kth argument
ZipPath(kk) == <<"zip-" \o ToString(kk)>>
TargetPath(kk) == <<"target-" \o ToString(kk)>>

\* the bytes the reader of an entry yields, in order
Content(file) == [n \in 1..file.len |-> n]

\* a step that only moves on
Goes(next) ==
    /\ pc' = next
    /\ UNCHANGED <<inputs, k, INTERRUPTED, target, fs, encoding, inner_root, i,
                   path, copy, result, exit_code, call>>

\* extract_into returns res: its TempDir is dropped on the way out
Returns(res, f) ==
    /\ result' = res
    /\ fs' = DropTempDir(f, k)
    /\ pc' = "after_extract"
    /\ UNCHANGED <<inputs, k, INTERRUPTED, target, encoding, inner_root, i,
                   path, copy, exit_code, call>>

\* an expect or unwrap panics: the stack unwinds, dropping the TempDir, and
\* the process ends with status 101
Panics(message, f, tree) ==
    /\ result' = message
    /\ fs' = DropTempDir(f, k)
    /\ target' = [target EXCEPT ![k] = tree]
    /\ pc' = "exit"
    /\ exit_code' = 101
    /\ UNCHANGED <<inputs, k, INTERRUPTED, encoding, inner_root, i, path, copy, call>>

\* main without the check of -O
StartWithoutCheck ==
    /\ pc = "start"
    /\ pc' = "main_loop"
    /\ k' = 1
    /\ UNCHANGED <<inputs, INTERRUPTED, target, fs, encoding, inner_root, i,
                   path, copy, result, exit_code, stdout, call>>

\* main, lines 286-295: the handler is registered, an unknown -O ends the run
Start ==
    /\ pc = "start"
    /\ IF oenc # "None" /\ ~get_encoding(oenc).some
       THEN /\ pc' = "exit"
            /\ exit_code' = 1
            /\ k' = k
            /\ stdout' = Append(stdout, Line("Error: Unknown encoding", <<oenc>>))
       ELSE /\ pc' = "main_loop"
            /\ exit_code' = exit_code
            /\ k' = 1
            /\ stdout' = stdout
    /\ UNCHANGED <<inputs, INTERRUPTED, target, fs, encoding, inner_root, i,
                   path, copy, result, call>>

\* a handler that flips the flag
SignalFlips ==
    /\ pc \notin {"start", "exit", "call", "returned"}
    /\ INTERRUPTED' = ~INTERRUPTED
    /\ UNCHANGED <<inputs, pc, k, target, fs, encoding, inner_root, i, path,
                   copy, result, exit_code, stdout, call>>

\* the signal handler of register_ctrlc
Signal ==
    /\ pc \notin {"start", "exit", "call", "returned"}
    /\ INTERRUPTED' = TRUE
    /\ UNCHANGED <<inputs, pc, k, target, fs, encoding, inner_root, i, path,
                   copy, result, exit_code, stdout, call>>

\* interrupt.rs: interrupted()
interrupted == INTERRUPTED

\* main, line 312: the next archive, or the end of the run
MainLoop ==
    /\ pc = "main_loop"
    /\ IF k > Len(zipfiles)
       THEN pc' = "exit" /\ exit_code' = 0
       ELSE pc' = "extract" /\ exit_code' = exit_code
    /\ UNCHANGED stdout
    /\ UNCHANGED <<inputs, k, INTERRUPTED, target, fs, encoding, inner_root, i,
                   path, copy, result, call>>

\* extract, lines 260-283: an existing target is replaced only when the user
\* agrees
Extract ==
    /\ pc = "extract"
    /\ \/ /\ ~Exists(target[k])
          /\ pc' = "tempdir"
          /\ result' = "none"
          /\ stdout' = Append(stdout, Line("unzip", ZipPath(k)))
       \/ /\ Exists(target[k])
          /\ stdout' = stdout \o <<Line("unzip", ZipPath(k)),
                                  Line("Already exists:", TargetPath(k))>>
          /\ \E answer \in {"yes", "no", "error"} :
                CASE answer = "yes" -> pc' = "tempdir" /\ result' = "none"
                  [] answer = "no" -> pc' = "after_extract" /\ result' = "Ok"
                  [] answer = "error" -> pc' = "after_extract" /\ result' = "prompt error"
    /\ UNCHANGED <<inputs, k, INTERRUPTED, target, fs, encoding, inner_root, i,
                   path, copy, exit_code, call>>

\* extract_into, line 227: tempdir_with_prefix_in
TempDir ==
    /\ pc = "tempdir"
    /\ UNCHANGED stdout
    /\ \E ok \in BOOLEAN :
          IF ok
          THEN /\ fs' = (StagingRoot(k) :> DirNode) @@ fs
               /\ pc' = "open"
               /\ UNCHANGED <<inputs, k, INTERRUPTED, target, encoding, inner_root,
                              i, path, copy, result, exit_code, call>>
          ELSE Returns("io error", fs)

\* extract_into, lines 229-233: the directory handle, the file, the archive
Open ==
    /\ pc = "open"
    /\ UNCHANGED stdout
    /\ \E ok \in BOOLEAN :
          IF ok THEN Goes("encoding") ELSE Returns("io error", fs)

\* extract_into, lines 235-239
ChooseEncoding ==
    /\ pc = "encoding"
    /\ UNCHANGED stdout
    /\ IF oenc # "None"
       THEN IF get_encoding(oenc).some
            THEN /\ encoding' = get_encoding(oenc).val
                 /\ pc' = "inner_root"
                 /\ UNCHANGED <<inputs, k, INTERRUPTED, target, fs, inner_root, i,
                                path, copy, result, exit_code, call>>
            ELSE Panics("called unwrap on a None value", fs, target[k])
       ELSE \/ /\ encoding' = detect_filename_encoding(zipfiles[k])
               /\ pc' = "inner_root"
               /\ UNCHANGED <<inputs, k, INTERRUPTED, target, fs, inner_root, i,
                              path, copy, result, exit_code, call>>
            \/ /\ zipfiles[k] # <<>>
               /\ Returns("io error", fs)

\* extract_into, lines 241-242: the first pass
InnerRoot ==
    /\ pc = "inner_root"
    /\ UNCHANGED stdout
    /\ \/ LET root == get_inner_root(zipfiles[k], encoding)
          IN  IF root.ok
              THEN /\ inner_root' = root.val
                   /\ i' = 1
                   /\ pc' = "unzip_entry"
                   /\ UNCHANGED <<inputs, k, INTERRUPTED, target, fs, encoding,
                                  path, copy, result, exit_code, call>>
              ELSE Returns(root.err, fs)
       \/ /\ zipfiles[k] # <<>>
          /\ Returns("io error", fs)

\* unzip, line 132 and line 138: continue
Continue ==
    /\ i' = i + 1
    /\ pc' = "unzip_entry"
    /\ UNCHANGED <<inputs, k, INTERRUPTED, target, fs, encoding, inner_root,
                   path, copy, result, exit_code, call>>

\* unzip, lines 142-148 up to the copy: the directory, or the file's
\* ancestors and the empty file
Materialise(file, p) ==
    IF file.dir
    THEN LET made == CreateDirAll(fs, StagingRoot(k), p)
         IN  \/ /\ made.ok
                /\ fs' = made.fs
                /\ path' = p
                /\ pc' = "set_mtime"
                /\ UNCHANGED <<inputs, k, INTERRUPTED, target, encoding,
                               inner_root, i, copy, result, exit_code, call>>
             \/ Returns("io error", fs)
    ELSE LET made == CreateDirAll(fs, StagingRoot(k), Pop(p))
             outfile == CreateFile(made.fs, StagingRoot(k), p)
         IN  \/ /\ made.ok
                /\ outfile.ok
                /\ fs' = outfile.fs
                /\ path' = p
                /\ buf' = <<>>
                /\ pos' = 0
                /\ eof' = FALSE
                /\ unread' = file.len
                /\ written_length' = 0
                /\ pc' = "copy_read"
                /\ UNCHANGED <<inputs, k, INTERRUPTED, target, encoding,
                               inner_root, i, result, exit_code, call>>
             \/ Returns("io error", made.fs)

\* unzip, lines 120-148: the head of the loop and the entry up to its content
UnzipEntry ==
    /\ pc = "unzip_entry"
    /\ IF i > Len(zipfiles[k])
       THEN Goes("remove_old") /\ UNCHANGED stdout
       ELSE \/ Returns("io error", fs) /\ UNCHANGED stdout
            \/ LET file == zipfiles[k][i]
                   unstripped_path == sanitize_path(decoded_name_lossy(file, encoding))
                   skip == Append(stdout, Line("Skip", unstripped_path.val))
               IN  IF ~unstripped_path.some
                   THEN Returns("Malformed zip file", fs) /\ UNCHANGED stdout
                   ELSE LET stripped == StripPrefix(unstripped_path.val, inner_root)
                        IN  IF ~stripped.some
                            THEN IF ~is_ignored_file(unstripped_path.val)
                                 THEN /\ Returns("Unexpected strip_prefix", fs)
                                      /\ stdout' = skip
                                 ELSE Continue /\ stdout' = skip
                            ELSE IF is_ignored_file(unstripped_path.val)
                            THEN Continue /\ stdout' = skip
                            ELSE /\ Materialise(file, IF stripped.val = <<>>
                                                      THEN <<CurDir>>
                                                      ELSE stripped.val)
                                 /\ stdout' = Append(stdout, Line("", unstripped_path.val))

\* Read::read on an entry that still holds unread bytes: its next length
\* bytes
Read(file, left, length) ==
    SubSeq(Content(file), file.len - left + 1, file.len - left + length)

\* interruptable_copy, lines 46-53: one read into the rest of the buffer
CopyRead ==
    /\ pc = "copy_read"
    /\ UNCHANGED stdout
    /\ \/ /\ unread = 0
          /\ eof' = TRUE
          /\ pc' = "copy_write"
          /\ UNCHANGED <<inputs, k, INTERRUPTED, target, fs, encoding, inner_root,
                         i, path, buf, pos, unread, written_length, result, exit_code, call>>
       \/ \E length \in 1..Min(unread, BufLen - pos) :
             /\ buf' = buf \o Read(zipfiles[k][i], unread, length)
             /\ pos' = pos + length
             /\ unread' = unread - length
             /\ pc' = IF pos + length < BufLen THEN "copy_read" ELSE "copy_write"
             /\ UNCHANGED <<inputs, k, INTERRUPTED, target, fs, encoding, inner_root,
                            i, path, eof, written_length, result, exit_code, call>>
       \/ Returns("io error", fs)

\* interruptable_copy, lines 54-55
CopyWrite ==
    /\ pc = "copy_write"
    /\ UNCHANGED stdout
    /\ \/ /\ fs' = WriteAll(fs, StagingRoot(k), path, SubSeq(buf, 1, pos))
          /\ written_length' = written_length + pos
          /\ pc' = "copy_check"
          /\ UNCHANGED <<inputs, k, INTERRUPTED, target, encoding, inner_root, i,
                         path, buf, pos, eof, unread, result, exit_code, call>>
       \/ Returns("io error", fs)

\* the check made at the head of the loop: no check after the last chunk
CopyCheckNotAtEof ==
    /\ pc = "copy_check"
    /\ UNCHANGED stdout
    /\ IF interrupted /\ ~eof
       THEN Returns("Interrupted", fs)
       ELSE /\ pc' = IF eof THEN "copy_flush" ELSE "copy_read"
            /\ pos' = 0
            /\ buf' = <<>>
            /\ UNCHANGED <<inputs, k, INTERRUPTED, target, fs, encoding, inner_root,
                           i, path, eof, unread, written_length, result, exit_code, call>>

\* interruptable_copy, lines 57-59 and the loop condition
CopyCheck ==
    /\ pc = "copy_check"
    /\ UNCHANGED stdout
    /\ IF interrupted
       THEN Returns("Interrupted", fs)
       ELSE /\ pc' = IF eof THEN "copy_flush" ELSE "copy_read"
            /\ pos' = 0
            /\ buf' = <<>>
            /\ UNCHANGED <<inputs, k, INTERRUPTED, target, fs, encoding, inner_root,
                           i, path, eof, unread, written_length, result, exit_code, call>>

\* interruptable_copy, lines 61-62
CopyFlush ==
    /\ pc = "copy_flush"
    /\ UNCHANGED stdout
    /\ \E ok \in BOOLEAN :
          IF ok THEN Goes("set_mtime") ELSE Returns("io error", fs)

\* unzip, lines 150-157
SetModified ==
    /\ pc = "set_mtime"
    /\ UNCHANGED stdout
    /\ LET mtime_datetime == Earliest(last_modified_chrono(zipfiles[k][i]))
       IN  IF mtime_datetime.some
           THEN LET set == SetMtime(fs, StagingRoot(k), path, mtime_datetime.val)
                IN  \/ /\ set.ok
                       /\ fs' = set.fs
                       /\ pc' = "unzip_check"
                       /\ UNCHANGED <<inputs, k, INTERRUPTED, target, encoding,
                                      inner_root, i, path, copy, result, exit_code, call>>
                    \/ Returns("io error", fs)
           ELSE Goes("unzip_check")

\* unzip, lines 161-163
UnzipCheck ==
    /\ pc = "unzip_check"
    /\ UNCHANGED stdout
    /\ IF interrupted THEN Returns("Interrupted", fs) ELSE Continue

\* extract_into, lines 246-254: the old target is removed
RemoveOld ==
    /\ pc = "remove_old"
    /\ stdout' = Append(stdout, Line("rename", TargetPath(k)))
    /\ IF Exists(target[k])
       THEN \/ /\ target' = [target EXCEPT ![k] = Absent]
               /\ pc' = "rename"
               /\ UNCHANGED <<inputs, k, INTERRUPTED, fs, encoding, inner_root, i,
                              path, copy, result, exit_code, call>>
            \/ \E left \in {target[k], PartlyRemoved} :
                  Panics("Failed to remove the old directory", fs, left)
       ELSE Goes("rename")

\* extract_into, lines 255-257: the rename, and the return
Rename ==
    /\ pc = "rename"
    /\ UNCHANGED stdout
    /\ \/ /\ target' = [target EXCEPT ![k] = StagedTree(fs, k)]
          /\ fs' = DropTempDir(fs, k)
          /\ result' = "Ok"
          /\ pc' = "after_extract"
          /\ UNCHANGED <<inputs, k, INTERRUPTED, encoding, inner_root, i, path,
                         copy, exit_code, call>>
       \/ Panics("Failed to move the directory", fs, target[k])

\* the error is reported and the loop goes on with the next archive
AfterExtractGoesOn ==
    /\ pc = "after_extract"
    /\ pc' = "main_loop"
    /\ k' = k + 1
    /\ UNCHANGED <<inputs, INTERRUPTED, target, fs, encoding, inner_root, i,
                   path, copy, result, exit_code, stdout, call>>

\* main, lines 313-324
AfterExtract ==
    /\ pc = "after_extract"
    /\ UNCHANGED stdout
    /\ IF interrupted
       THEN pc' = "exit" /\ exit_code' = 130 /\ k' = k
       ELSE IF result # "Ok"
       THEN pc' = "exit" /\ exit_code' = 1 /\ k' = k
       ELSE pc' = "main_loop" /\ exit_code' = exit_code /\ k' = k + 1
    /\ UNCHANGED <<inputs, INTERRUPTED, target, fs, encoding, inner_root, i,
                   path, copy, result, call>>

Next ==
    \/ Start
    \/ Signal
    \/ MainLoop
    \/ Extract
    \/ TempDir
    \/ Open
    \/ ChooseEncoding
    \/ InnerRoot
    \/ UnzipEntry
    \/ CopyRead
    \/ CopyWrite
    \/ CopyCheck
    \/ CopyFlush
    \/ SetModified
    \/ UnzipCheck
    \/ RemoveOld
    \/ Rename
    \/ AfterExtract

Spec == Init /\ [][Next]_vars

(***************************************************************************)
(* The run on several archives: main's loop over args.zipfiles.            *)
(***************************************************************************)
\* the archives of a run on several
ArchivePool ==
    { << File(<<"Proj", "a.txt">>, FALSE, FALSE, 1, "2024-01-01 12:00:00"),
         File(<<"Proj", "sub", "b.txt">>, FALSE, FALSE, 0, "2024-01-01 12:00:00") >>,
      << File(<<"x.txt">>, FALSE, FALSE, 0, "2024-01-01 12:00:00"),
         File(<<"..", "..", "etc", "passwd">>, FALSE, FALSE, 1, "2024-01-01 12:00:00") >>,
      << File(<<"x.txt">>, FALSE, FALSE, 0, "2024-01-01 12:00:00"),
         File(<<"..", ".DS_Store">>, FALSE, FALSE, 1, "2024-01-01 12:00:00") >> }

InitBatch ==
    /\ zipfiles \in UNION {[1..m -> ArchivePool] : m \in 1..MaxArchives}
    /\ oenc \in OencPool
    /\ pre \in [DOMAIN zipfiles -> {Absent, OldTree}]
    /\ target = pre
    /\ pc = "start"
    /\ Idle
    /\ arg = <<>>
    /\ ret = "none"

SpecBatch == InitBatch /\ [][Next]_vars

(***************************************************************************)
(* Properties of sanitize_path (SpecSanitize).                             *)
(***************************************************************************)
\* root joined with rel, resolved by the rules of the operating system:
\* ".." leaves a directory (also the root), an absolute path replaces all
JoinResolve(root, rel) ==
    LET RECURSIVE Walk(_, _)
        Walk(n, acc) ==
            IF n > Len(rel) THEN acc
            ELSE IF rel[n] \in {RootDir, Prefix} THEN Walk(n + 1, <<>>)
            ELSE IF rel[n] = CurDir THEN Walk(n + 1, acc)
            ELSE IF rel[n] = ParentDir
                 THEN Walk(n + 1, IF acc = <<>> THEN <<>> ELSE SubSeq(acc, 1, Len(acc) - 1))
            ELSE Walk(n + 1, Append(acc, rel[n]))
    IN  Walk(1, root)

Inside(abs, root) == Len(root) <= Len(abs) /\ SubSeq(abs, 1, Len(root)) = root

CountIn(p, n, S) == Cardinality({m \in 1..n : p[m] \in S})

\* some ".." of p comes when as many ".." as normal components came before it
MeetsParentWhenEmpty(p) ==
    \E n \in DOMAIN p :
        /\ p[n] = ".."
        /\ CountIn(p, n - 1, {c \in ComponentPool : c \notin {"..", ".", "/", "C:"}})
               <= CountIn(p, n - 1, {".."})

\* C1: sanitize_path returns None or a relative path of normal components
\* without a NUL byte, which joined to a destination root stays inside that
\* root; it returns None whenever a ".." is met while the accumulator is empty.
C1_SanitizeStaysInside ==
    pc = "returned" =>
        /\ ret.some =>
              /\ \A n \in DOMAIN ret.val :
                    ret.val[n] \notin {"..", ".", "/", "C:"} \cup NulNames
              /\ Inside(JoinResolve(<<"dst">>, ret.val), <<"dst">>)
        /\ MeetsParentWhenEmpty(arg) => ~ret.some

C1_Witness ==
    /\ pc = "returned"
    /\ arg = <<"a", "..", "..", "b">>
    /\ ~ret.some

(***************************************************************************)
(* Properties of get_inner_root (SpecRoot).                                *)
(***************************************************************************)
C8_Sanitized(file, enc) == sanitize_path(decoded_name_lossy(file, enc))

C8_NoMalformed(archive, enc) ==
    \A n \in DOMAIN archive : C8_Sanitized(archive[n], enc).some

\* the containing directories of the entries that are not ignored
C8_Dirs(archive, enc) ==
    { IF archive[n].dir THEN C8_Sanitized(archive[n], enc).val
      ELSE SubSeq(C8_Sanitized(archive[n], enc).val, 1,
                  Len(C8_Sanitized(archive[n], enc).val) - 1) :
        n \in {m \in DOMAIN archive : ~is_ignored_file(C8_Sanitized(archive[m], enc).val)} }

C8_Expected(archive, enc) ==
    LET dirs == C8_Dirs(archive, enc)
    IN  IF /\ dirs # {}
           /\ \A d \in dirs : d # <<>>
           /\ \A d, e \in dirs : d[1] = e[1]
        THEN <<(CHOOSE d \in dirs : TRUE)[1]>>
        ELSE <<>>

C8_ax == File(<<"a", "x.txt">>, FALSE, FALSE, 0, "")
C8_ay == File(<<"a", "y">>, FALSE, TRUE, 0, "")
C8_by == File(<<"b", "y.txt">>, FALSE, FALSE, 0, "")
C8_x == File(<<"x.txt">>, FALSE, FALSE, 0, "")

\* C8: without a malformed name, get_inner_root returns the segment S when
\* there is an entry that is not ignored and the containing directory of
\* every such entry is not empty and starts with S, and the empty path in
\* every other case; the four examples of the specification.
C8_InnerRootCharacterised ==
    pc = "returned" =>
        /\ C8_NoMalformed(arg[1], arg[2]) =>
               ret = [ok |-> TRUE, val |-> C8_Expected(arg[1], arg[2]), err |-> "none"]
        /\ arg[1] = <<C8_ax, C8_ay>> => ret.ok /\ ret.val = <<"a">>
        /\ arg[1] = <<C8_ax, C8_by>> => ret.ok /\ ret.val = <<>>
        /\ arg[1] = <<C8_x, C8_ax>> => ret.ok /\ ret.val = <<>>
        /\ arg[1] = <<>> => ret.ok /\ ret.val = <<>>

C8_Witness ==
    /\ pc = "returned"
    /\ arg[1] = <<C8_ax, File(<<"__MACOSX", "a">>, FALSE, FALSE, 0, ""), C8_ay>>
    /\ ret.ok
    /\ ret.val = <<"a">>

Perms(n) == {p \in [1..n -> 1..n] : \A a, b \in 1..n : a # b => p[a] # p[b]}
Permuted(archive, p) == [n \in 1..Len(archive) |-> archive[p[n]]]

\* C9 as claimed: every permutation of the entry list gives the same outcome,
\* also when a name is rejected by sanitize_path.
C9_OrderIndependent ==
    pc = "returned" =>
        \A p \in Perms(Len(arg[1])) :
            get_inner_root(Permuted(arg[1], p), arg[2]) = ret

\* C9 as amended: every permutation of an entry list whose names
\* sanitize_path all accepts gives the same inner root; when some name is
\* rejected, every permutation gives the malformed-name error or the empty
\* inner root.
C9_OrderIndependentWhenWellFormed ==
    pc = "returned" =>
        \A p \in Perms(Len(arg[1])) :
            LET other == get_inner_root(Permuted(arg[1], p), arg[2])
            IN  IF C8_NoMalformed(arg[1], arg[2])
                THEN other = ret
                ELSE \/ ~other.ok /\ other.err = "Malformed zip file"
                     \/ other.ok /\ other.val = <<>>

C9_Witness ==
    /\ pc = "returned"
    /\ arg[1] = <<C8_ay, C8_ax, File(<<"a", "b", "z">>, FALSE, FALSE, 0, "")>>
    /\ ret.ok
    /\ ret.val = <<"a">>

(***************************************************************************)
(* Properties of detect_filename_encoding (SpecDetect).                    *)
(***************************************************************************)
\* no name of an entry that is not is_utf8 is malformed under the encoding
C10_Clean(archive, enc) ==
    \A n \in DOMAIN archive :
        \/ is_utf8(archive[n])
        \/ ~(CASE enc = "UTF_8" -> Utf8Decode(archive[n].name_raw[1]).malformed
               [] enc = "SHIFT_JIS" -> ShiftJisDecode(archive[n].name_raw[1]).malformed)

\* C10: detect_filename_encoding returns UTF-8 when no name is malformed as
\* UTF-8, else Shift_JIS when none is malformed as Shift_JIS, else Cp437;
\* names clean as UTF-8 give UTF-8, names invalid as UTF-8 and valid as
\* Shift_JIS give Shift_JIS, names invalid under both give Cp437 and the
\* empty archive gives UTF-8.
C10_DetectFirstCleanCandidate ==
    pc = "returned" =>
        /\ ret = (IF C10_Clean(arg, "UTF_8") THEN "UTF_8"
                  ELSE IF C10_Clean(arg, "SHIFT_JIS") THEN "SHIFT_JIS"
                  ELSE "Cp437")
        /\ (ret = "Cp437") <=> (~C10_Clean(arg, "UTF_8") /\ ~C10_Clean(arg, "SHIFT_JIS"))
        /\ arg = <<>> => ret = "UTF_8"
        /\ (\A n \in DOMAIN arg : arg[n].name_raw \in {<<"a">>, <<"E38182">>, <<"C2A1">>})
               => ret = "UTF_8"
        /\ (/\ \E n \in DOMAIN arg : arg[n].name_raw = <<"8365">>
            /\ \A n \in DOMAIN arg : arg[n].name_raw \in {<<"a">>, <<"8365">>, <<"C2A1">>})
               => ret = "SHIFT_JIS"
        /\ (\E n \in DOMAIN arg : arg[n].name_raw = <<"FF">>) => ret = "Cp437"

C10_Witness ==
    /\ pc = "returned"
    /\ arg = <<File(<<"E38182">>, TRUE, FALSE, 0, ""), File(<<"8365">>, FALSE, FALSE, 0, "")>>
    /\ ret = "SHIFT_JIS"

(***************************************************************************)
(* Properties of the run (Spec).                                           *)
(***************************************************************************)
\* the archive at hand, or the last one when the run is over
At == IF k > Len(zipfiles) THEN Len(zipfiles) ELSE k

\* the two passes over the archive: get_inner_root and unzip
PassPcs == {"inner_root", "unzip_entry", "copy_read", "copy_write", "copy_check",
            "copy_flush", "set_mtime", "unzip_check"}

NoStaging(kk) == \A p \in DOMAIN fs : ~Inside(p, <<"exzip-" \o ToString(kk)>>)

\* C2: while get_inner_root and unzip run, every node created, written or
\* stamped lies inside the staging directory and the target is as it was
\* before the run; no node is ever created outside a staging directory.
C2_UnzipStaysInStaging ==
    /\ \A p \in DOMAIN fs : k >= 1 /\ Inside(p, <<"exzip-" \o ToString(At)>>)
    /\ pc \in PassPcs => target = pre

C2_Witness ==
    /\ pc = "unzip_entry"
    /\ i = 2
    /\ Len(zipfiles[1]) = 2
    /\ zipfiles[1][2].name_raw = <<"..", "..", "etc", "passwd">>
    /\ <<"exzip-1", "x.txt">> \in DOMAIN fs
    /\ fs[<<"exzip-1", "x.txt">>].mtime = "2023-10-29T02:30+02"

\* C3: when extract_into returns a malformed-archive error or an I/O error,
\* the staging directory no longer exists and the target is as it was before
\* the call.
C3_FailureLeavesTarget ==
    (/\ pc = "after_extract"
     /\ result \in {"Malformed zip file", "Unexpected strip_prefix", "io error"})
        => NoStaging(k) /\ target[k] = pre[k]

C3_Witness ==
    /\ pc = "after_extract"
    /\ result = "Malformed zip file"
    /\ i = 2
    /\ pre[1] = OldTree
    /\ target[1] = OldTree
    /\ fs = << >>

\* the tree holds every entry of the archive at hand that is not ignored, at
\* its path without the inner root, a file with all its content
C4_Complete(tree) ==
    \A n \in DOMAIN zipfiles[At] :
        LET file == zipfiles[At][n]
            whole == sanitize_path(decoded_name_lossy(file, encoding))
        IN  /\ whole.some
            /\ ~is_ignored_file(whole.val) =>
                  LET rel == SubSeq(whole.val, Len(inner_root) + 1, Len(whole.val))
                  IN  /\ rel \in DOMAIN tree
                      /\ tree[rel].kind = (IF file.dir THEN "dir" ELSE "file")
                      /\ ~file.dir => tree[rel].len = file.len

C4_New(tree) ==
    /\ <<>> \in DOMAIN tree
    /\ tree[<<>>].mtime # "old"
    /\ C4_Complete(tree)

\* C4 as claimed: in every state the target holds its complete content of
\* before the call or the complete newly extracted tree.
C4_TargetOldOrNew ==
    pc # "start" /\ k >= 1 => (target[At] = pre[At] \/ C4_New(target[At]))

\* C4 as amended: the target holds its complete content of before the call
\* until unzip has succeeded; from then on it is that content, absent or
\* partly removed (the old target being removed before the rename), or the
\* complete newly extracted tree; it never holds a partly extracted tree.
C4_TargetNeverPartlyExtracted ==
    pc # "start" /\ k >= 1 =>
        /\ \/ target[At] = pre[At]
           \/ target[At] \in {Absent, PartlyRemoved} /\ pre[At] = OldTree
           \/ C4_New(target[At])
        /\ target[At] # pre[At] =>
              /\ i > Len(zipfiles[At])
              /\ pc \in {"rename", "after_extract", "main_loop", "exit"}

C4_Witness ==
    /\ pc = "after_extract"
    /\ pre[1] = OldTree
    /\ result = "Ok"
    /\ Len(zipfiles[1]) = 2
    /\ <<"x.txt">> \in DOMAIN target[1]
    /\ target[1][<<"x.txt">>].len = 3

\* C5 as claimed: the rename is not performed once the cancellation flag is
\* set, and no run that ends interrupted has replaced its target.
C5_NoRenameOnceInterrupted ==
    [][(pc = "rename" /\ INTERRUPTED) => target' = target]_vars

\* the steps of a file entry from its first read to the checkpoint of unzip
C6_EntryPcs == {"copy_read", "copy_write", "copy_check", "copy_flush",
                "set_mtime", "unzip_check"}

\* C6: once the flag is set while a file entry is copied, the copy fails with
\* Interrupted at the checkpoint after the chunk at hand, unzip begins no
\* further entry, and unzip ends with the staging directory deleted and the
\* target as it was before the call.
C6_InterruptedCopyStops ==
    [][(INTERRUPTED /\ pc \in C6_EntryPcs) =>
          /\ i' = i
          /\ pc = "copy_check" => pc' = "after_extract" /\ result' = "Interrupted"
          /\ \/ pc' \in C6_EntryPcs
             \/ /\ pc' = "after_extract"
                /\ result' \in {"Interrupted", "io error"}
                /\ \A p \in DOMAIN fs' : ~Inside(p, <<"exzip-" \o ToString(k)>>)
                /\ target'[k] = pre[k]]_vars

C6_Witness ==
    /\ pc = "after_extract"
    /\ result = "Interrupted"
    /\ i = 1
    /\ Len(zipfiles[1]) = 2
    /\ eof
    /\ pos > 0
    /\ written_length = zipfiles[1][1].len
    /\ written_length > pos
    /\ fs = << >>
    /\ pre[1] = OldTree
    /\ target[1] = OldTree

\* C7 as claimed: unzip begins the next entry only through its checkpoint,
\* with the flag unset.
C7_CheckpointAfterEveryEntry ==
    [][(pc \in PassPcs \ {"inner_root"} /\ i' > i /\ i' <= Len(zipfiles[k])) =>
          (pc = "unzip_check" /\ ~INTERRUPTED)]_vars

(***************************************************************************)
(* Properties of the ignored entries (SpecBatch, Spec).                    *)
(***************************************************************************)
\* a name of the ignored class: a segment "__MACOSX", or the final segment
\* "Thumbs.db" or ".DS_Store"
C11_IgnoredClass(name) ==
    \/ \E n \in DOMAIN name : name[n] = "__MACOSX"
    \/ name # <<>> /\ name[Len(name)] \in {"Thumbs.db", ".DS_Store"}

\* C11: an entry whose name is of the ignored class never causes the
\* failure "Malformed zip file": when an archive fails so, one of its names
\* outside the ignored class is the one that does not pass sanitize_path.
C11_IgnoredNeverMalformed ==
    result = "Malformed zip file" =>
        \E n \in DOMAIN zipfiles[At] :
            LET name == decoded_name_lossy(zipfiles[At][n], encoding)
            IN  ~C11_IgnoredClass(name) /\ ~sanitize_path(name).some

\* the sanitized path of an entry, when it is one the program ignores
C12_IgnoredPath(file) ==
    LET p == sanitize_path(decoded_name_lossy(file, encoding))
    IN  IF p.some /\ C11_IgnoredClass(p.val) THEN p ELSE None

\* the archive without its ignored entries
C12_WithoutIgnored(archive) ==
    SelectSeq(archive, LAMBDA file : ~C12_IgnoredPath(file).some)

\* C12: an entry whose sanitized path is ignored has no part in the inner
\* root (the first pass gives what it gives on the archive without the
\* ignored entries), and the step of unzip that handles it creates nothing,
\* prints the one line "Skip <path>" and goes on to the next entry, also
\* when the path does not start with the inner root; only a failing read of
\* the entry ends unzip there.
C12_IgnoredEntriesAreSkipped ==
    [][ /\ (pc = "inner_root" /\ pc' = "unzip_entry") =>
             inner_root' = get_inner_root(C12_WithoutIgnored(zipfiles[k]), encoding).val
        /\ ( /\ pc = "unzip_entry"
             /\ i <= Len(zipfiles[k])
             /\ C12_IgnoredPath(zipfiles[k][Min(i, Len(zipfiles[k]))]).some
             /\ <<pc, i, result>>' # <<pc, i, result>> ) =>
                \/ /\ pc' = "unzip_entry"
                   /\ i' = i + 1
                   /\ fs' = fs
                   /\ result' = result
                   /\ stdout' = Append(stdout,
                                    Line("Skip", C12_IgnoredPath(zipfiles[k][i]).val))
                \/ /\ pc' = "after_extract"
                   /\ result' = "io error"
                   /\ stdout' = stdout
                   /\ NoStaging(k)'
      ]_vars

\* [a/x.txt, __MACOSX/a] has the inner root a; __MACOSX/a does not start
\* with it and was skipped with its line; only x.txt is staged
C12_Witness ==
    /\ Len(zipfiles) = 1
    /\ Len(zipfiles[1]) = 2
    /\ zipfiles[1][1].name_raw = <<"a", "x.txt">>
    /\ zipfiles[1][2].name_raw = <<"__MACOSX", "a">>
    /\ inner_root = <<"a">>
    /\ pc = "unzip_entry"
    /\ i = 3
    /\ stdout[Len(stdout)] = Line("Skip", <<"__MACOSX", "a">>)
    /\ DOMAIN StagedTree(fs, 1) = {<<>>, <<"x.txt">>}

(***************************************************************************)
(* Properties of the placement of the entries (SpecBatch).                 *)
(***************************************************************************)
\* the sanitized paths of the entries of the archive at hand that are not
\* ignored, each with its entry
C13_Kept ==
    {e \in {[file |-> zipfiles[At][n],
             whole |-> sanitize_path(decoded_name_lossy(zipfiles[At][n], encoding))] :
                n \in DOMAIN zipfiles[At]} :
        e.whole.some /\ ~C11_IgnoredClass(e.whole.val)}

\* where the claim places a path: without its leading segment when the
\* inner root is one segment, as it is when the inner root is empty
C13_Place(whole) ==
    IF inner_root = <<>> THEN whole ELSE SubSeq(whole, 2, Len(whole))

C13_Proj ==
    << File(<<"Proj", "a.txt">>, FALSE, FALSE, 1, "2024-01-01 12:00:00"),
       File(<<"Proj", "sub", "b.txt">>, FALSE, FALSE, 0, "2024-01-01 12:00:00") >>

C14_FlagMonotonic ==
    [][ /\ pc = "start" => ~interrupted
        /\ interrupted => interrupted'
        /\ INTERRUPTED' # INTERRUPTED =>
               /\ INTERRUPTED' = TRUE
               /\ UNCHANGED <<inputs, pc, k, target, fs, encoding, inner_root, i,
                              path, copy, result, exit_code, stdout, call>>
      ]_vars

\* the flag was set during a copy, the copy saw it and main ended with 130
C14_Witness ==
    /\ INTERRUPTED
    /\ pc = "exit"
    /\ exit_code = 130
    /\ result = "Interrupted"
    /\ written_length > 0

(***************************************************************************)
(* Properties of the run on several archives (SpecBatch).  Every argument  *)
(* has its own target path.                                                *)
(***************************************************************************)
\* the archives after the one at hand are not begun: their targets are as
\* before the run; and no archive but the one at hand has a staging
\* directory
C15_LaterNotBegun ==
    /\ \A kk \in DOMAIN zipfiles : kk > k => target[kk] = pre[kk]
    /\ \A kk \in DOMAIN zipfiles : kk # k => NoStaging(kk)

\* C15: the archives are taken one at a time in the order of the
\* arguments: main moves from an archive to the next one only when extract
\* has returned Ok for it and the flag is not set, so after an archive that
\* ends interrupted or with an error no later archive is begun (no staging
\* directory, target as before the run); and no step changes the target of
\* an archive that main has left behind.
C15_OneAtATimeInOrder ==
    [][ /\ C15_LaterNotBegun
        /\ C15_LaterNotBegun'
        /\ k' # k =>
               /\ k' = k + 1
               /\ k >= 1 => pc = "after_extract" /\ result = "Ok" /\ ~interrupted
        /\ pc = "after_extract" /\ (result # "Ok" \/ interrupted) =>
               pc' \in {"after_extract", "exit"}
        /\ pc' = "exit" => k' = k
        /\ \A kk \in DOMAIN zipfiles : kk < k => target'[kk] = target[kk]
      ]_vars

\* of three archives the first is extracted, the second fails on a malformed
\* name and the run ends: the first target keeps what was extracted, the
\* third target is as before the run and nothing is staged
C15_Witness ==
    /\ Len(zipfiles) = 3
    /\ pc = "exit"
    /\ exit_code = 1
    /\ k = 2
    /\ result = "Malformed zip file"
    /\ pre[1] = Absent
    /\ <<"sub", "b.txt">> \in DOMAIN target[1]
    /\ pre[3] = OldTree
    /\ target[3] = OldTree
    /\ fs = << >>

(***************************************************************************)
(* sanitize_path against the fold of its description (SpecSanitize).       *)
(***************************************************************************)
\* the fold over the components, from the empty accumulator: the
\* accumulator after the first n components, or None once one has rejected
C16_Fold(components) ==
    LET acc[n \in 0..Len(components)] ==
            IF n = 0 THEN Some(<<>>)
            ELSE IF ~acc[n - 1].some THEN None
            ELSE LET sofar == acc[n - 1].val
                     c == components[n]
                 IN  CASE c = ".." ->
                              IF Len(sofar) = 0 THEN None
                              ELSE Some([m \in 1..(Len(sofar) - 1) |-> sofar[m]])
                       [] c \in {"/", ".", "C:"} -> Some(sofar)
                       [] OTHER ->
                              IF c \in NulNames THEN None ELSE Some(sofar \o <<c>>)
    IN  acc[Len(components)]

\* C16: sanitize_path returns what the fold returns, on every component
\* sequence; "a/../b" gives "b", "/a/./b" gives "a/b", "a/.." gives the
\* empty path, "/.." and "a/../../b" are rejected.
C16_SanitizeIsTheFold ==
    pc = "returned" =>
        /\ ret = C16_Fold(arg)
        /\ arg = <<"a", "..", "b">> => ret = Some(<<"b">>)
        /\ arg \in {<<"/", "a", ".", "b">>, <<"/", "a", "b">>} => ret = Some(<<"a", "b">>)
        /\ arg = <<"a", "..">> => ret = Some(<<>>)
        /\ arg \in {<<"/", "..">>, <<"a", "..", "..", "b">>} => ret = None

C16_Witness ==
    /\ pc = "returned"
    /\ arg = <<"/", "a", ".", "b">>
    /\ ret = Some(<<"a", "b">>)

(***************************************************************************)
(* Properties of the timestamps (Spec).                                    *)
(***************************************************************************)
\* the stored date and time is no calendar value
C17_Invalid(file) == file.last_modified = "1980-00-00 00:00:00"
\* the stored local time comes twice, when the clocks go back from +02 to +01
C17_Ambiguous(file) == file.last_modified = "2023-10-29 02:30:00"

\* C17: when unzip comes to the timestamp of an entry, the entry is in the
\* staging directory, a file with all its content.  If its stored date is no
\* calendar value nothing is stamped and unzip goes on to its checkpoint
\* without failing; if it is ambiguous the node gets the earlier instant;
\* and a step that stamps a node is one of an entry whose date is valid or
\* ambiguous.  From the checkpoint unzip goes to the next entry unless the
\* flag is set.
C17_InvalidDateIsNotStamped ==
    [][ /\ (pc = "set_mtime" /\ pc' # pc) =>
             LET file == zipfiles[k][i]
                 at == Locate(StagingRoot(k), path).val
             IN  /\ at \in DOMAIN fs
                 /\ fs[at].kind = (IF file.dir THEN "dir" ELSE "file")
                 /\ ~file.dir => fs[at].data = Content(file)
                 /\ C17_Invalid(file) =>
                        /\ fs' = fs
                        /\ pc' = "unzip_check"
                        /\ result' = result
                 /\ (C17_Ambiguous(file) /\ pc' = "unzip_check") =>
                        fs' = [fs EXCEPT ![at].mtime = "2023-10-29T02:30+02"]
                 /\ (\E q \in DOMAIN fs : q \in DOMAIN fs' /\ fs'[q].mtime # fs[q].mtime) =>
                        ~C17_Invalid(file)
        /\ (pc = "unzip_check" /\ pc' # pc /\ ~interrupted) =>
             pc' = "unzip_entry" /\ i' = i + 1 /\ result' = result
      ]_vars

\* [a/y/ with the date 1980-00-00, x.txt with an ambiguous time] is
\* extracted: a/y is there without a timestamp, x.txt has the earlier instant
C17_Witness ==
    /\ pc = "after_extract"
    /\ result = "Ok"
    /\ Len(zipfiles[1]) = 2
    /\ C17_Invalid(zipfiles[1][1])
    /\ C17_Ambiguous(zipfiles[1][2])
    /\ <<"a", "y">> \in DOMAIN target[1]
    /\ target[1][<<"a", "y">>].kind = "dir"
    /\ target[1][<<"a", "y">>].mtime = "unset"
    /\ target[1][<<"x.txt">>].mtime = "2023-10-29T02:30+02"

(***************************************************************************)
(* Properties of interruptable_copy (Spec).                                *)
(***************************************************************************)
C18_CopyPcs == {"copy_read", "copy_write", "copy_check", "copy_flush"}

\* during a copy: what the writer holds is the first written_length bytes of
\* the reader's content, and the buffer holds at most its size, the bytes
\* that follow them until they are written
C18_WrittenIsPrefix ==
    pc \in C18_CopyPcs =>
        LET file == zipfiles[k][i]
            at == Locate(StagingRoot(k), path).val
        IN  /\ at \in DOMAIN fs
            /\ written_length <= file.len
            /\ fs[at].data = SubSeq(Content(file), 1, written_length)
            /\ Len(buf) = pos
            /\ pos <= BufLen
            /\ pc \in {"copy_read", "copy_write"} =>
                   buf = SubSeq(Content(file), written_length + 1, written_length + pos)

\* C18: for every content and every split of it into short reads, the
\* writer always holds a prefix of the reader's bytes, in order (so also
\* when the copy fails with Interrupted); every write appends at most the
\* buffer size; the copy fails with Interrupted only when the flag is set;
\* it ends through the flush, having written all the bytes of the reader
\* and counted them in written_length (0 for an empty reader).
C18_CopyWritesTheReadersBytes ==
    [][ /\ C18_WrittenIsPrefix
        /\ C18_WrittenIsPrefix'
        /\ (pc = "copy_write" /\ pc' = "copy_check") =>
               LET at == Locate(StagingRoot(k), path).val
               IN  /\ fs' = [fs EXCEPT ![at].data = @ \o buf, ![at].len = @ + Len(buf)]
                   /\ Len(buf) <= BufLen
                   /\ written_length' = written_length + Len(buf)
        /\ (pc \in C18_CopyPcs /\ result' = "Interrupted") =>
               pc = "copy_check" /\ interrupted
        /\ (pc = "copy_check" /\ pc' # pc /\ ~interrupted) =>
               pc' = (IF unread = 0 /\ eof THEN "copy_flush" ELSE "copy_read")
        /\ (pc \in C18_CopyPcs /\ pc' \notin C18_CopyPcs /\ pc' # "after_extract") =>
               LET file == zipfiles[k][i]
                   at == Locate(StagingRoot(k), path).val
               IN  /\ pc = "copy_flush"
                   /\ pc' = "set_mtime"
                   /\ written_length = file.len
                   /\ fs'[at].data = Content(file)
      ]_vars

\* three bytes went through a buffer of two: the writer holds them in order
\* after the writes of 2 and 1, and the reader is at its end
C18_Witness ==
    /\ pc = "copy_check"
    /\ eof
    /\ ~INTERRUPTED
    /\ zipfiles[1][i].len = 3
    /\ written_length = 3
    /\ pos = 1
    /\ fs[Locate(StagingRoot(1), path).val].data = <<1, 2, 3>>

(***************************************************************************)
(* The two passes over the archive (Spec).                                 *)
(***************************************************************************)
\* unzip is running with the inner root that get_inner_root returned
C19_UnzipPcs == {"unzip_entry", "copy_read", "copy_write", "copy_check",
                 "copy_flush", "set_mtime", "unzip_check", "remove_old"}

\* the entries of the archive at hand whose sanitized path does not start
\* with the inner root
C19_OutsideRoot ==
    {n \in DOMAIN zipfiles[At] :
        LET p == sanitize_path(decoded_name_lossy(zipfiles[At][n], encoding))
        IN  /\ p.some
            /\ ~(Len(inner_root) <= Len(p.val)
                   /\ \A m \in 1..Len(inner_root) : p.val[m] = inner_root[m])}

\* C19: when get_inner_root has returned R for an archive and an encoding,
\* unzip on them never fails with "Unexpected strip_prefix": every entry
\* whose sanitized path does not start with R is one that is ignored.
C19_PassesAreConsistent ==
    /\ result # "Unexpected strip_prefix"
    /\ pc \in C19_UnzipPcs =>
          \A n \in C19_OutsideRoot :
              C11_IgnoredClass(sanitize_path(
                  decoded_name_lossy(zipfiles[At][n], encoding)).val)

\* unzip has gone through an archive that has an inner root and an entry
\* outside it
C19_Witness ==
    /\ pc = "remove_old"
    /\ inner_root # <<>>
    /\ C19_OutsideRoot # {}
    /\ Len(zipfiles[1]) = 3
    /\ 1 \notin C19_OutsideRoot
    /\ 3 \notin C19_OutsideRoot

(***************************************************************************)
(* The override encoding (SpecBatch).                                      *)
(***************************************************************************)
\* C20: when -O names an encoding that get_encoding does not know, the run
\* ends with status 1 and the line "Error: Unknown encoding <name>" before
\* any archive is begun: no staging directory is made and every target is
\* as before the run; and the unwrap of extract_into never meets None.
C20_UnknownEncodingEndsRun ==
    /\ result # "called unwrap on a None value"
    /\ (oenc # "None" /\ ~get_encoding(oenc).some) =>
          /\ pc \in {"start", "exit"}
          /\ k = 0
          /\ fs = << >>
          /\ target = pre
          /\ result = "none"
          /\ pc = "exit" =>
                /\ exit_code = 1
                /\ stdout = <<Line("Error: Unknown encoding", <<oenc>>)>>

\* a run on three archives with -O latin-x has ended
C20_Witness ==
    /\ oenc = "latin-x"
    /\ Len(zipfiles) = 3
    /\ pre[2] = OldTree
    /\ pc = "exit"
    /\ exit_code = 1
    /\ target = pre
====
